---- MODULE Spec2Model ----
(***************************************************************************)
(* The Task API exercises of claude-code-skills-lab.                       *)
(*                                                                         *)
(* Four FastAPI applications live in the repository; `app` names the one   *)
(* that is loaded:                                                         *)
(*   "class_4_project"  class_4_project/my-project/main.py  (full CRUD)    *)
(*   "class_4"          class_4/my-project/main.py          (create/read)  *)
(*   "class_3"          class_3/fastapihelloworld/main.py   (stateless)    *)
(*   "task_test"        task-test/main.py                   (no /tasks)    *)
(*                                                                         *)
(* The `task` table is a sequence of rows in insertion order.  The column  *)
(* `id` is an integer primary key with default None: a row inserted with   *)
(* id None takes the next value of the table's id sequence (`seq`), a row  *)
(* inserted with an id keeps that id, and an insert whose id is already    *)
(* in the table fails the commit (IntegrityError, a 500 response).         *)
(* In Spec a request is handled in one step (handlers run one at a time).  *)
(* In ConcSpec the handlers of class_4_project run in worker threads, each *)
(* with the Session that get_session opened for it, and every round trip   *)
(* to the database (session.get, commit, refresh) is a step of its own.    *)
(***************************************************************************)
EXTENDS Integers, Sequences, FiniteSets, TLC

\* ---- bounds and input domains -------------------------------------------
MaxCreate == 2
CallerIds == {-1, 0, 1}
Titles == {"a", "b"}
Descs == {"x"}
None == <<>>
Some(v) == <<v>>
PathIds == CallerIds \cup (1..MaxCreate)

VARIABLES app, tasks, seq, op, resp, returned, deleted, allocated, injected,
          procs

vars == <<app, tasks, seq, op, resp, returned, deleted, allocated, injected,
          procs>>

Apps == {"class_4_project", "class_4", "class_3", "task_test"}

\* ---- the table -----------------------------------------------------------
Ids(rows) == {rows[k].id : k \in 1..Len(rows)}

\* session.get(Task, task_id): the row with that primary key, or None
session_get(rows, task_id) ==
    LET hit == SelectSeq(rows, LAMBDA r : r.id = task_id)
    IN IF hit = <<>> THEN None ELSE Some(hit[1])

\* session.delete(task); session.commit()
session_delete(rows, task_id) == SelectSeq(rows, LAMBDA r : r.id # task_id)

ReplaceRow(rows, row) ==
    [k \in 1..Len(rows) |-> IF rows[k].id = row.id THEN row ELSE rows[k]]

\* ---- responses -------------------------------------------------------------
TaskResp(row) == [status |-> 200, kind |-> "task", rows |-> <<row>>, text |-> ""]
ListResp(rows) == [status |-> 200, kind |-> "list", rows |-> rows, text |-> ""]
NullResp == [status |-> 200, kind |-> "null", rows |-> <<>>, text |-> ""]
MessageResp(m) == [status |-> 200, kind |-> "message", rows |-> <<>>, text |-> m]
DetailResp(code, m) == [status |-> code, kind |-> "detail", rows |-> <<>>, text |-> m]
NotFound == DetailResp(404, "Task not found")
NoRoute == DetailResp(404, "Not Found")
ServerError == DetailResp(500, "Internal Server Error")
NoResp == [status |-> 0, kind |-> "none", rows |-> <<>>, text |-> ""]

\* the keys of the JSON object in the body of a response
BodyKeys(r) ==
    CASE r.kind = "task" -> DOMAIN r.rows[1]
      [] r.kind = "detail" -> {"detail"}
      [] r.kind = "message" -> {"message"}
      [] OTHER -> {}

Outcome(rows, s, r) == [tasks |-> rows, seq |-> s, resp |-> r]

\* ---- worker threads (ConcSpec) ---------------------------------------------
Workers == {"w1", "w2"}

\* a worker with no request: no session was opened yet, no response sent
Idle ==
    [pc |-> "idle", sess |-> "none", name |-> "none", id |-> None,
     body |-> None, task |-> None, resp |-> NoResp, wrote |-> FALSE,
     last |-> 0]

\* ---- class_4_project/my-project/main.py ------------------------------------
\* request bodies are Task objects: id and completed are optional fields
Bodies ==
    [id : {None} \cup {Some(i) : i \in CallerIds}, title : Titles,
     description : Descs, completed : BOOLEAN]

\* the primary key of the inserted row: the body's id, or the next value of
\* the id sequence when the body carries none
AllocId(task, s) == IF task.id = None THEN s + 1 ELSE task.id[1]

NextSeqStuck(task, s) == s

NextSeq(task, s) == IF task.id = None THEN s + 1 ELSE s

\* the row that session.add(task) inserts
NewRow(task, nid) ==
    [id |-> nid, title |-> task.title, description |-> task.description,
     completed |-> task.completed]

\* POST /tasks
add_task_result(rows, s, task) ==
    LET nid == AllocId(task, s)
        row == NewRow(task, nid)
    IN IF nid \in Ids(rows)
       THEN Outcome(rows, NextSeq(task, s), ServerError)
       ELSE Outcome(Append(rows, row), NextSeq(task, s), TaskResp(row))

\* GET /tasks
get_tasks_result(rows, s) == Outcome(rows, s, ListResp(rows))

\* GET /tasks/{task_id}
get_task_result(rows, s, task_id) ==
    LET task == session_get(rows, task_id)
    IN IF task = None
       THEN Outcome(rows, s, NotFound)
       ELSE Outcome(rows, s, TaskResp(task[1]))

UpdatedRow(task, updated_task) ==
    [task EXCEPT !.title = updated_task.title,
                 !.description = updated_task.description,
                 !.completed = updated_task.completed]

update_task_result_upsert(rows, s, task_id, updated_task) ==
    LET task == session_get(rows, task_id)
        row == IF task = None THEN NewRow(updated_task, task_id)
               ELSE UpdatedRow(task[1], updated_task)
    IN IF task = None
       THEN Outcome(Append(rows, row), s, TaskResp(row))
       ELSE Outcome(ReplaceRow(rows, row), s, TaskResp(row))

\* PUT /tasks/{task_id}
update_task_result(rows, s, task_id, updated_task) ==
    LET task == session_get(rows, task_id)
    IN IF task = None
       THEN Outcome(rows, s, NotFound)
       ELSE LET row == UpdatedRow(task[1], updated_task)
            IN Outcome(ReplaceRow(rows, row), s, TaskResp(row))

MarkedRowToggled(task) == [task EXCEPT !.completed = ~task.completed]

MarkedRow(task) == [task EXCEPT !.completed = TRUE]

\* PATCH /tasks/{task_id}
mark_task_result(rows, s, task_id) ==
    LET task == session_get(rows, task_id)
    IN IF task = None
       THEN Outcome(rows, s, NotFound)
       ELSE LET row == MarkedRow(task[1])
            IN Outcome(ReplaceRow(rows, row), s, TaskResp(row))

delete_task_result_soft(rows, s, task_id) ==
    LET task == session_get(rows, task_id)
    IN IF task = None
       THEN Outcome(rows, s, NotFound)
       ELSE Outcome(ReplaceRow(rows, MarkedRow(task[1])), s,
                    MessageResp("Task delete successfully"))

\* DELETE /tasks/{task_id}
delete_task_result(rows, s, task_id) ==
    LET task == session_get(rows, task_id)
    IN IF task = None
       THEN Outcome(rows, s, NotFound)
       ELSE Outcome(session_delete(rows, task_id), s,
                    MessageResp("Task delete successfully"))

\* one request handled: the table, the sequence and the response change as
\* the handler's outcome says; the remaining variables record the history
\* op: the last request (handler, id sent), whether it took a held task from
\* completed = FALSE to TRUE, and whether it repeats a successful request
Flipped(rows, rows2) ==
    /\ app = "class_4_project"
    /\ \E j \in 1..Len(rows), k \in 1..Len(rows2) :
         /\ rows[j].id = rows2[k].id
         /\ ~rows[j].completed
         /\ rows2[k].completed

Handled(name, arg, out) ==
    /\ tasks' = out.tasks
    /\ seq' = out.seq
    /\ resp' = out.resp
    /\ op' = [name |-> name, id |-> arg,
              flipped |-> Flipped(tasks, out.tasks),
              repeat |-> (op.name = name /\ op.id = arg /\ resp.status = 200)]
    /\ UNCHANGED procs

Created(task, out) ==
    IF out.resp.status = 200
    THEN /\ returned' = Append(returned, out.resp.rows[1].id)
         /\ allocated' = IF task.id = None
                         THEN allocated \cup {out.resp.rows[1].id}
                         ELSE allocated
    ELSE UNCHANGED <<returned, allocated>>

add_task ==
    /\ app = "class_4_project"
    /\ Len(returned) < MaxCreate
    /\ \E task \in Bodies :
         /\ task.id = None => seq < MaxCreate
         /\ LET out == add_task_result(tasks, seq, task)
            IN /\ Handled("add_task", task.id, out)
               /\ Created(task, out)
               /\ injected' = (injected \/ task.id # None)
    /\ UNCHANGED <<app, deleted>>

get_tasks ==
    /\ app = "class_4_project"
    /\ Handled("get_tasks", None, get_tasks_result(tasks, seq))
    /\ UNCHANGED <<app, returned, deleted, allocated, injected>>

get_task ==
    /\ app = "class_4_project"
    /\ \E task_id \in PathIds :
         Handled("get_task", Some(task_id), get_task_result(tasks, seq, task_id))
    /\ UNCHANGED <<app, returned, deleted, allocated, injected>>

update_task ==
    /\ app = "class_4_project"
    /\ \E task_id \in PathIds, updated_task \in Bodies :
         /\ updated_task.id = None
         /\ Handled("update_task", Some(task_id),
                    update_task_result(tasks, seq, task_id, updated_task))
    /\ UNCHANGED <<app, returned, deleted, allocated, injected>>

mark_task ==
    /\ app = "class_4_project"
    /\ \E task_id \in PathIds :
         Handled("mark_task", Some(task_id), mark_task_result(tasks, seq, task_id))
    /\ UNCHANGED <<app, returned, deleted, allocated, injected>>

delete_task ==
    /\ app = "class_4_project"
    /\ \E task_id \in PathIds :
         LET out == delete_task_result(tasks, seq, task_id)
         IN /\ Handled("delete_task", Some(task_id), out)
            /\ deleted' = IF out.resp.status = 200
                          THEN deleted \cup {task_id} ELSE deleted
    /\ UNCHANGED <<app, returned, allocated, injected>>

\* ---- class_4/my-project/main.py --------------------------------------------
\* this Task has no completed column
C4Bodies ==
    [id : {None} \cup {Some(i) : i \in CallerIds}, title : Titles,
     description : Descs]

C4NewRow(task, nid) ==
    [id |-> nid, title |-> task.title, description |-> task.description]

\* POST /tasks
create_task_result(rows, s, task) ==
    LET nid == AllocId(task, s)
        row == C4NewRow(task, nid)
    IN IF nid \in Ids(rows)
       THEN Outcome(rows, NextSeq(task, s), ServerError)
       ELSE Outcome(Append(rows, row), NextSeq(task, s), TaskResp(row))

\* GET /tasks/{task_id}: returns whatever session.get returned
c4_get_task_result(rows, s, task_id) ==
    LET task == session_get(rows, task_id)
    IN IF task = None
       THEN Outcome(rows, s, NullResp)
       ELSE Outcome(rows, s, TaskResp(task[1]))

create_task ==
    /\ app = "class_4"
    /\ Len(returned) < MaxCreate
    /\ \E task \in C4Bodies :
         /\ task.id = None => seq < MaxCreate
         /\ LET out == create_task_result(tasks, seq, task)
            IN /\ Handled("create_task", task.id, out)
               /\ Created(task, out)
               /\ injected' = (injected \/ task.id # None)
    /\ UNCHANGED <<app, deleted>>

c4_get_tasks ==
    /\ app = "class_4"
    /\ Handled("get_tasks", None, get_tasks_result(tasks, seq))
    /\ UNCHANGED <<app, returned, deleted, allocated, injected>>

c4_get_task ==
    /\ app = "class_4"
    /\ \E task_id \in PathIds :
         Handled("get_task", Some(task_id), c4_get_task_result(tasks, seq, task_id))
    /\ UNCHANGED <<app, returned, deleted, allocated, injected>>

\* ---- class_3/fastapihelloworld/main.py -------------------------------------
\* todoItem: the id is a required field of the body; nothing is stored
TodoItems == [id : CallerIds, task : Titles]

TodoItemResponse(todo, completed) ==
    [id |-> todo.id, task |-> todo.task, completed |-> completed]

\* POST /todo
add_todo_result(rows, s, todo) ==
    Outcome(rows, s, TaskResp(TodoItemResponse(todo, TRUE)))

add_todo ==
    /\ app = "class_3"
    /\ \E todo \in TodoItems :
         Handled("add_todo", Some(todo.id), add_todo_result(tasks, seq, todo))
    /\ UNCHANGED <<app, returned, deleted, allocated, injected>>

\* ---- task-test/main.py -----------------------------------------------------
\* the application registers "/" and "/health" only: a GET of
\* /tasks/{task_id} matches no route
tt_get_task_result(rows, s, task_id) == Outcome(rows, s, NoRoute)

tt_get_task ==
    /\ app = "task_test"
    /\ \E task_id \in PathIds :
         Handled("get_task", Some(task_id), tt_get_task_result(tasks, seq, task_id))
    /\ UNCHANGED <<app, returned, deleted, allocated, injected>>

\* ---- the specification -----------------------------------------------------
Init ==
    /\ app \in Apps
    /\ tasks = <<>>
    /\ seq = 0
    /\ op = [name |-> "start", id |-> None, flipped |-> FALSE, repeat |-> FALSE]
    /\ resp = NoResp
    /\ returned = <<>>
    /\ deleted = {}
    /\ allocated = {}
    /\ injected = FALSE
    /\ procs = [w \in Workers |-> Idle]

Next ==
    \/ add_task
    \/ get_tasks
    \/ get_task
    \/ update_task
    \/ mark_task
    \/ delete_task
    \/ create_task
    \/ c4_get_tasks
    \/ c4_get_task
    \/ add_todo
    \/ tt_get_task

Spec == Init /\ [][Next]_vars

\* ---- class_4_project/my-project/main.py, handlers in worker threads --------
ConcIds == 1..MaxCreate
ConcBodies == {b \in Bodies : b.id = None /\ b.title = "a"}

Requests ==
    {[name |-> "add_task", id |-> None, body |-> Some(b)] : b \in ConcBodies}
    \cup {[name |-> "get_tasks", id |-> None, body |-> None]}
    \cup {[name |-> n, id |-> Some(i), body |-> None] :
            n \in {"get_task", "mark_task", "delete_task"}, i \in ConcIds}
    \cup {[name |-> "update_task", id |-> Some(i), body |-> Some(b)] :
            i \in ConcIds, b \in ConcBodies}

InFlightAdds ==
    Cardinality({w \in Workers :
                   procs[w].pc = "handler" /\ procs[w].name = "add_task"})

\* what the `with Session(engine) as session` block leaves behind when the
\* handler has returned or raised
SessionExitNoFinally(pc) == IF pc = "raised" THEN "open" ELSE "closed"

SessionExit(pc) == "closed"

\* the UPDATE that a commit flushes: the columns whose value in the session
\* differs from the loaded one, written to the row with that primary key
WriteBack(dbrow, loaded, new) ==
    [c \in DOMAIN dbrow |-> IF new[c] # loaded[c] THEN new[c] ELSE dbrow[c]]

Raise(w, r) == [procs EXCEPT ![w].pc = "raised", ![w].resp = r]
Return(w, r) == [procs EXCEPT ![w].pc = "returned", ![w].resp = r]
Respond(w, r) == IF r.status = 200 THEN Return(w, r) ELSE Raise(w, r)

History == <<app, op, resp, returned, deleted, allocated, injected>>

\* Depends(get_session): the session is opened and the handler is entered
c_get_session(w) ==
    /\ procs[w].pc = "idle"
    /\ \E r \in Requests :
         /\ r.name = "add_task" => seq + InFlightAdds < MaxCreate
         /\ procs' = [procs EXCEPT ![w] =
                        [pc |-> "handler", sess |-> "open", name |-> r.name,
                         id |-> r.id, body |-> r.body, task |-> None,
                         resp |-> NoResp, wrote |-> FALSE, last |-> 0]]
    /\ UNCHANGED <<tasks, seq, History>>

\* add_task: session.add(task); session.commit()
c_add_task(w) ==
    /\ procs[w].pc = "handler"
    /\ procs[w].name = "add_task"
    /\ LET out == add_task_result(tasks, seq, procs[w].body[1])
       IN /\ tasks' = out.tasks
          /\ seq' = out.seq
          /\ procs' = IF out.resp.status = 200
                      THEN [procs EXCEPT ![w].pc = "refresh",
                                         ![w].task = Some(out.resp.rows[1]),
                                         ![w].wrote = TRUE]
                      ELSE Raise(w, out.resp)
    /\ UNCHANGED History

\* session.refresh(task); return task
c_refresh(w) ==
    /\ procs[w].pc = "refresh"
    /\ LET row == session_get(tasks, procs[w].task[1].id)
       IN procs' = IF row = None
                   THEN Raise(w, ServerError)
                   ELSE Return(w, TaskResp(row[1]))
    /\ UNCHANGED <<tasks, seq, History>>

c_get_tasks(w) ==
    /\ procs[w].pc = "handler"
    /\ procs[w].name = "get_tasks"
    /\ procs' = Respond(w, get_tasks_result(tasks, seq).resp)
    /\ UNCHANGED <<tasks, seq, History>>

c_get_task(w) ==
    /\ procs[w].pc = "handler"
    /\ procs[w].name = "get_task"
    /\ procs' = Respond(w, get_task_result(tasks, seq, procs[w].id[1]).resp)
    /\ UNCHANGED <<tasks, seq, History>>

\* update_task, mark_task, delete_task: task = session.get(Task, task_id);
\* if not task: raise HTTPException(404)
c_session_get(w) ==
    /\ procs[w].pc = "handler"
    /\ procs[w].name \in {"update_task", "mark_task", "delete_task"}
    /\ LET task == session_get(tasks, procs[w].id[1])
       IN procs' = IF task = None
                   THEN Raise(w, NotFound)
                   ELSE [procs EXCEPT ![w].pc = "loaded", ![w].task = task]
    /\ UNCHANGED <<tasks, seq, History>>

\* session.commit() of a loaded task changed to `new`: no statement when
\* nothing changed, an error when the UPDATE matches no row
Commit(w, new) ==
    LET loaded == procs[w].task[1]
        dbrow == session_get(tasks, loaded.id)
    IN IF new = loaded
       THEN /\ procs' = [procs EXCEPT ![w].pc = "refresh"]
            /\ tasks' = tasks
       ELSE IF dbrow = None
       THEN /\ procs' = Raise(w, ServerError)
            /\ tasks' = tasks
       ELSE /\ procs' = [procs EXCEPT ![w].pc = "refresh", ![w].wrote = TRUE]
            /\ tasks' = ReplaceRow(tasks, WriteBack(dbrow[1], loaded, new))

c_update_commit(w) ==
    /\ procs[w].pc = "loaded"
    /\ procs[w].name = "update_task"
    /\ Commit(w, UpdatedRow(procs[w].task[1], procs[w].body[1]))
    /\ UNCHANGED <<seq, History>>

c_mark_commit(w) ==
    /\ procs[w].pc = "loaded"
    /\ procs[w].name = "mark_task"
    /\ Commit(w, MarkedRow(procs[w].task[1]))
    /\ UNCHANGED <<seq, History>>

\* session.delete(task); session.commit(); return {"message": ...}
c_delete_commit(w) ==
    /\ procs[w].pc = "loaded"
    /\ procs[w].name = "delete_task"
    /\ tasks' = session_delete(tasks, procs[w].id[1])
    /\ procs' = [Return(w, MessageResp("Task delete successfully"))
                   EXCEPT ![w].wrote = (tasks' # tasks)]
    /\ UNCHANGED <<seq, History>>

\* the handler has returned or raised: get_session's with block is left and
\* the response goes out (its status is kept in `last`)
c_close(w) ==
    /\ procs[w].pc \in {"returned", "raised"}
    /\ procs' = [procs EXCEPT ![w] =
                   [Idle EXCEPT !.sess = SessionExit(procs[w].pc),
                                !.last = procs[w].resp.status]]
    /\ UNCHANGED <<tasks, seq, History>>

\* the steps of a request that is being handled
Step(w) ==
    \/ c_add_task(w)
    \/ c_refresh(w)
    \/ c_get_tasks(w)
    \/ c_get_task(w)
    \/ c_session_get(w)
    \/ c_update_commit(w)
    \/ c_mark_commit(w)
    \/ c_delete_commit(w)
    \/ c_close(w)

ConcInit ==
    /\ app = "class_4_project"
    /\ tasks = <<>>
    /\ seq = 0
    /\ op = [name |-> "start", id |-> None, flipped |-> FALSE, repeat |-> FALSE]
    /\ resp = NoResp
    /\ returned = <<>>
    /\ deleted = {}
    /\ allocated = {}
    /\ injected = FALSE
    /\ procs = [w \in Workers |-> Idle]

ConcNext ==
    \/ \E w \in Workers : c_get_session(w)
    \/ \E w \in Workers : c_add_task(w)
    \/ \E w \in Workers : c_refresh(w)
    \/ \E w \in Workers : c_get_tasks(w)
    \/ \E w \in Workers : c_get_task(w)
    \/ \E w \in Workers : c_session_get(w)
    \/ \E w \in Workers : c_update_commit(w)
    \/ \E w \in Workers : c_mark_commit(w)
    \/ \E w \in Workers : c_delete_commit(w)
    \/ \E w \in Workers : c_close(w)

\* every worker thread that is handling a request keeps running
ConcSpec ==
    ConcInit /\ [][ConcNext]_vars /\ \A w \in Workers : WF_vars(Step(w))

\* ---- properties ------------------------------------------------------------
Creates == {"add_task", "create_task"}
Held(i) == i \in Ids(tasks)
Distinct(q) == \A j, k \in 1..Len(q) : j # k => q[j] # q[k]

\* C1: in the applications that have a get_task handler, a get of an id that
\* is not in the table answers 404 "Task not found", never a null body.
C1_GetAbsentSignalsNotFound ==
    (/\ app \in {"class_4_project", "class_4"}
     /\ op.name = "get_task"
     /\ ~Held(op.id[1]))
    => resp = NotFound

\* C2: once delete(id) has succeeded, get(id) answers NotFound and list()
\* holds no task with that id, whatever requests follow.
C2_DeletedStaysInvisible ==
    \A i \in deleted :
        /\ get_task_result(tasks, seq, i).resp = NotFound
        /\ i \notin Ids(get_tasks_result(tasks, seq).resp.rows)

\* C3: every held task has a positive id that no other held task has, and
\* that id came from the table's id sequence, not from the caller.
C3_IdsPositiveUniqueAssigned ==
    /\ \A k \in 1..Len(tasks) : tasks[k].id > 0 /\ tasks[k].id \in allocated
    /\ Distinct([k \in 1..Len(tasks) |-> tasks[k].id])

\* C4: the ids returned by successful creates are pairwise different, also
\* across deletions.
C4_IdsNeverReused == Distinct(returned)

\* C5: update, complete and delete of an id that is not held answer NotFound
\* and leave the table and the id sequence as they were.
C5_MissLeavesRegistryUnchanged ==
    [][(/\ op'.name \in {"update_task", "mark_task", "delete_task"}
        /\ ~Held(op'.id[1]))
       => (resp' = NotFound /\ tasks' = tasks /\ seq' = seq)]_vars

C5_Witness ==
    /\ op.name \in {"update_task", "mark_task", "delete_task"}
    /\ resp = NotFound
    /\ Len(tasks) > 0

\* C6 (as stated): a held task goes from completed = FALSE to TRUE only in a
\* complete (mark_task) request.
C6_OnlyCompleteSetsCompleted ==
    [][Flipped(tasks, tasks') => op'.name = "mark_task"]_vars

\* C6 (amended): a held task goes from completed = FALSE to TRUE only in a
\* complete (mark_task) request or an update (update_task) request.
C6_CompleteOrUpdateSetsCompleted ==
    [][Flipped(tasks, tasks') => op'.name \in {"mark_task", "update_task"}]_vars

C6_Witness == op.name = "update_task" /\ op.flipped

\* C7: a complete of a held task that directly follows a successful complete
\* of the same task succeeds too, both answer completed = TRUE, and the
\* second leaves the table and the id sequence as the first left them.
C7_CompleteIdempotent ==
    [][(/\ op.name = "mark_task"
        /\ resp.status = 200
        /\ op'.name = "mark_task"
        /\ op'.id = op.id)
       => (/\ resp.rows[1].completed
           /\ resp'.status = 200
           /\ resp'.rows[1].completed
           /\ resp' = resp
           /\ tasks' = tasks
           /\ seq' = seq)]_vars

C7_Witness ==
    /\ op.name = "mark_task"
    /\ op.repeat
    /\ resp.status = 200
    /\ resp.rows[1].completed

\* C8: a task made by create has completed = FALSE in the response and in
\* the table, whatever the request carried.
C8_CreatedNotCompleted ==
    (op.name \in {"add_task", "add_todo"} /\ resp.status = 200)
    => /\ ~resp.rows[1].completed
       /\ \A k \in 1..Len(tasks) :
            tasks[k].id = resp.rows[1].id => ~tasks[k].completed

C10_NonPositiveIdIsError ==
    (op.name = "get_task" /\ op.id[1] <= 0)
    => /\ resp.kind = "detail"
       /\ resp.text # ""
       /\ "id" \notin BodyKeys(resp)
       /\ "task" \notin BodyKeys(resp)
       /\ resp.rows = <<>>

\* C11: with handlers running concurrently, the find-by-id of update,
\* complete and delete and the mutation that follows are one atomic step:
\* while a handler holds the task it found and has not committed yet, no
\* other handler changes or removes that task; and an update or complete
\* neither writes to nor answers 200 for a task that is no longer held.
C11_FindAndMutateAtomic ==
    /\ [][\A w \in Workers :
            (procs[w].pc = "loaded" /\ procs'[w].pc = "loaded")
            => session_get(tasks', procs[w].id[1])
               = session_get(tasks, procs[w].id[1])]_vars
    /\ [][\A w \in Workers :
            (/\ procs[w].name \in {"update_task", "mark_task"}
             /\ procs'[w].pc # procs[w].pc
             /\ ~Held(procs[w].id[1]))
            => (tasks' = tasks /\ procs'[w].pc # "returned")]_vars

\* C12: a session that get_session opened is closed after the handler has
\* returned or raised, and a handler that raises the 404 has committed
\* nothing: the table and the id sequence are as they were.
C12_SessionsClosed ==
    /\ \A w \in Workers :
         (procs[w].sess = "open") ~> (procs[w].sess = "closed")
    /\ [][\A w \in Workers :
            (/\ procs[w].pc # "raised"
             /\ procs'[w].pc = "raised"
             /\ procs'[w].resp = NotFound)
            => (tasks' = tasks /\ seq' = seq /\ ~procs'[w].wrote)]_vars

C12_Witness ==
    \E w \in Workers :
        /\ procs[w].pc = "idle"
        /\ procs[w].sess = "closed"
        /\ procs[w].last = 404

====
